---- MODULE Spec2Model ----
(***************************************************************************)
(* Model of modules/api.py of ComfyUI-Autocomplete-Plus: the directory     *)
(* scanner, the metadata reader, the LoRA CSV synthesizer and the HTTP     *)
(* handlers built on them.                                                 *)
(*                                                                         *)
(* Strings that the code inspects (file names, route parameters) are       *)
(* sequences of tokens, so that startswith / endswith / "in" / lower() /   *)
(* int() are computed and not assumed.  A token is a run of characters     *)
(* that none of the searched needles cuts in two.                          *)
(***************************************************************************)
EXTENDS Integers, Sequences, FiniteSets, TLC

VARIABLES
    data_dir,          \* os.listdir(DATA_DIR): the file names, in listing order
    csv_meta_file,     \* the file at dl.CSV_META_FILE
    lora_search_path,  \* the "lora_search_path" list of the downloader metadata
    lora_dirs,         \* the directories the search path may name
    lora_csv,          \* the content of DATA_DIR/lora_tags.csv
    tasks,             \* the get_csv_list calls, by request number
    clock,             \* number of get_csv_list calls that reached line 141 so far
    downloader_log,    \* the last call of run_check_and_download
    resp,              \* the last response a handler produced
    served             \* what the host streamed for the last FileResponse

vars == <<data_dir, csv_meta_file, lora_search_path, lora_dirs, lora_csv,
          tasks, clock, downloader_log, resp, served>>

-----------------------------------------------------------------------------
(* Bounds *)

MaxRegenerations == 2
MaxIndex == 1
MaxInstalled == 2

-----------------------------------------------------------------------------
(* Generic helpers *)

Range(s) == {s[i] : i \in 1..Len(s)}

\* str.startswith
StartsWith(s, p) == Len(p) <= Len(s) /\ SubSeq(s, 1, Len(p)) = p

\* str.endswith
EndsWith(s, p) == Len(p) <= Len(s) /\ SubSeq(s, Len(s) - Len(p) + 1, Len(s)) = p

\* needle in s
Contains(needle, s) ==
    \E i \in 0..(Len(s) - Len(needle)) : SubSeq(s, i + 1, i + Len(needle)) = needle

LowerToken(t) ==
    CASE t = "TAGS" -> "tags"
      [] t = "Tags" -> "tags"
      [] t = "COOCCURRENCE" -> "cooccurrence"
      [] OTHER -> t

\* str.lower
Lower(s) == [i \in 1..Len(s) |-> LowerToken(s[i])]

-----------------------------------------------------------------------------
(* Module constants, api.py lines 14-19 *)

DANBOORU_PREFIX == <<"danbooru">>
E621_PREFIX == <<"e621">>
LORA_PREFIX == <<"lora">>

TAGS_SUFFIX == <<"tags">>
COOCCURRENCE_SUFFIX == <<"tags", "_", "cooccurrence">>

\* f"{prefix}_{suffix}.csv"
CsvName(prefix, suffix) == prefix \o <<"_">> \o suffix \o <<".csv">>

LoraTagsFile == CsvName(LORA_PREFIX, TAGS_SUFFIX)

-----------------------------------------------------------------------------
(* The files the data directory may hold, in one fixed order *)

FileOrder ==
    << <<"danbooru", "_", "tags", ".csv">>,
       <<"danbooru", "_", "tags", "_", "cooccurrence", ".csv">>,
       <<"danbooru", "_", "tags", "_", "extra1", ".csv">>,
       <<"danbooru", "_", "tags", "_", "cooccurrence", "_", "backup", ".csv">>,
       <<"danbooru", "_", "TAGS", "_", "x", ".csv">>,
       <<"danbooru", "_", "notes", ".csv">>,
       <<"danbooru", "_", "tags", ".txt">>,
       <<"e621", "_", "tags", ".csv">>,
       <<"e621", "_", "tags", "_", "cooccurrence", ".csv">>,
       <<"e621", "_", "Tags", "_", "COOCCURRENCE", "_", "x", ".csv">>,
       <<"my", "_", "e621", "_", "tags", ".csv">>,
       <<"lora", "_", "tags", ".csv">>,
       <<"lora", "_", "tags", "_", "cooccurrence", ".csv">> >>

FileNames == Range(FileOrder)

Reverse(s) == [i \in 1..Len(s) |-> s[Len(s) + 1 - i]]

\* the listings of the directories holding exactly the files of S
Listing(S, order) ==
    LET IsIn(f) == f \in S
    IN  SelectSeq(IF order = "forward" THEN FileOrder ELSE Reverse(FileOrder), IsIn)

\* os.path.exists(os.path.join(DATA_DIR, name))
ExistsInDataDir(name) == name \in Range(data_dir)

-----------------------------------------------------------------------------
(* get_csv_file_status, api.py lines 22-71 *)

\* the keys of the per-source dictionary
BASE_TAGS == <<"base", "_", "tags">>
EXTRA_TAGS == <<"extra", "_", "tags">>
BASE_COOCCURRENCE == <<"base", "_", "cooccurrence">>
EXTRA_COOCCURRENCE == <<"extra", "_", "cooccurrence">>

\* the dictionary literal of lines 28-33 and 63-68
StatusEntry(tags_base_exists, tags_extra_files, cooccurrence_base_exists, cooccurrence_extra_files) ==
    (BASE_TAGS :> tags_base_exists) @@ (EXTRA_TAGS :> tags_extra_files) @@
    (BASE_COOCCURRENCE :> cooccurrence_base_exists) @@
    (EXTRA_COOCCURRENCE :> cooccurrence_extra_files)

EmptyStatus ==
    [prefix \in {DANBOORU_PREFIX, E621_PREFIX} |-> StatusEntry(FALSE, <<>>, FALSE, <<>>)]

\* the loop of lines 55-61 with the two substring tests in the other order
RECURSIVE ClassifyExtraTagsFirst(_, _, _, _)
ClassifyExtraTagsFirst(files, base_files, tags_extra_files, cooccurrence_extra_files) ==
    IF files = <<>>
    THEN [tags |-> tags_extra_files, cooccurrence |-> cooccurrence_extra_files]
    ELSE LET filename == Head(files)
         IN  IF filename \in base_files
             THEN ClassifyExtraTagsFirst(Tail(files), base_files, tags_extra_files,
                                         cooccurrence_extra_files)
             ELSE IF Contains(TAGS_SUFFIX, Lower(filename))
             THEN ClassifyExtraTagsFirst(Tail(files), base_files,
                                         Append(tags_extra_files, filename),
                                         cooccurrence_extra_files)
             ELSE IF Contains(COOCCURRENCE_SUFFIX, Lower(filename))
             THEN ClassifyExtraTagsFirst(Tail(files), base_files, tags_extra_files,
                                         Append(cooccurrence_extra_files, filename))
             ELSE ClassifyExtraTagsFirst(Tail(files), base_files, tags_extra_files,
                                         cooccurrence_extra_files)

\* the loop of lines 55-61
RECURSIVE ClassifyExtra(_, _, _, _)
ClassifyExtra(files, base_files, tags_extra_files, cooccurrence_extra_files) ==
    IF files = <<>>
    THEN [tags |-> tags_extra_files, cooccurrence |-> cooccurrence_extra_files]
    ELSE LET filename == Head(files)
         IN  IF filename \in base_files
             THEN ClassifyExtra(Tail(files), base_files, tags_extra_files,
                                cooccurrence_extra_files)
             ELSE IF Contains(COOCCURRENCE_SUFFIX, Lower(filename))
             THEN ClassifyExtra(Tail(files), base_files, tags_extra_files,
                                Append(cooccurrence_extra_files, filename))
             ELSE IF Contains(TAGS_SUFFIX, Lower(filename))
             THEN ClassifyExtra(Tail(files), base_files,
                                Append(tags_extra_files, filename),
                                cooccurrence_extra_files)
             ELSE ClassifyExtra(Tail(files), base_files, tags_extra_files,
                                cooccurrence_extra_files)

\* one iteration of "for prefix in [DANBOORU_PREFIX, E621_PREFIX]", lines 42-68
ScanPrefix(prefix) ==
    LET base_tags_file == CsvName(prefix, TAGS_SUFFIX)
        base_cooccurrence_file == CsvName(prefix, COOCCURRENCE_SUFFIX)
        IsCsvOfPrefix(f) == StartsWith(f, prefix) /\ EndsWith(f, <<".csv">>)
        all_csv_files == SelectSeq(data_dir, IsCsvOfPrefix)
        extra == ClassifyExtra(all_csv_files, {base_tags_file, base_cooccurrence_file},
                               <<>>, <<>>)
    IN  StatusEntry(ExistsInDataDir(base_tags_file), extra.tags,
                    ExistsInDataDir(base_cooccurrence_file), extra.cooccurrence)

get_csv_file_status == [prefix \in {DANBOORU_PREFIX, E621_PREFIX} |-> ScanPrefix(prefix)]

-----------------------------------------------------------------------------
(* JSON documents as json.load returns them.  None is JNull. *)

JNull == [type |-> "null", text |-> "", num |-> 0, items |-> <<>>, fields |-> <<>>]
\* numbers are held in tenths: JNum(8) is 0.8, JNum(10) is 1
JNum(tenths) == [JNull EXCEPT !.type = "number", !.num = tenths]
JStr(text) == [JNull EXCEPT !.type = "str", !.text = text]
JList(items) == [JNull EXCEPT !.type = "list", !.items = items]
JObj(fields) == [JNull EXCEPT !.type = "object", !.fields = fields]
Field(key, value) == [key |-> key, value |-> value]

Return(value) == [raised |-> "", value |-> value]
Raise(exception) == [raised |-> exception, value |-> JNull]

\* key in d, for a dict d
HasKey(d, key) == \E i \in 1..Len(d.fields) : d.fields[i].key = key

\* d.get(key, default), for a dict d
DictGet(d, key, default) ==
    IF HasKey(d, key)
    THEN d.fields[CHOOSE i \in 1..Len(d.fields) : d.fields[i].key = key].value
    ELSE default

\* bool(v)
Truthy(v) ==
    CASE v.type = "null" -> FALSE
      [] v.type = "number" -> v.num # 0
      [] v.type = "str" -> v.text # ""
      [] v.type = "list" -> v.items # <<>>
      [] v.type = "object" -> v.fields # <<>>

\* len(v)
PyLen(v) ==
    CASE v.type = "list" -> [raised |-> "", value |-> Len(v.items)]
      [] v.type = "object" -> [raised |-> "", value |-> Len(v.fields)]
      \* a str is one word here: a non-empty one has a positive length
      [] v.type = "str" -> [raised |-> "", value |-> IF v.text = "" THEN 0 ELSE 1]
      [] OTHER -> [raised |-> "TypeError", value |-> 0]

\* v[0]
GetItem0(v) ==
    CASE v.type = "list" -> IF v.items = <<>> THEN Raise("IndexError") ELSE Return(v.items[1])
      [] v.type = "str" -> IF v.text = "" THEN Raise("IndexError") ELSE Return(JStr(v.text))
      [] v.type = "object" -> Raise("KeyError")
      [] OTHER -> Raise("TypeError")

\* a file holding JSON text
JsonFile(json) ==
    [exists |-> TRUE, readable |-> TRUE, utf8 |-> TRUE, valid_json |-> TRUE, json |-> json]
AbsentFile == [JsonFile(JNull) EXCEPT !.exists = FALSE]
UnreadableFile == [JsonFile(JNull) EXCEPT !.readable = FALSE]
NotUtf8File == [JsonFile(JNull) EXCEPT !.utf8 = FALSE]
InvalidJsonFile == [JsonFile(JNull) EXCEPT !.valid_json = FALSE]

\* open(path, encoding=...) followed by json.load(f)
LoadJson(file) ==
    IF ~file.exists \/ ~file.readable THEN Raise("IOError")
    ELSE IF ~file.utf8 THEN Raise("UnicodeDecodeError")
    ELSE IF ~file.valid_json THEN Raise("JSONDecodeError")
    ELSE Return(file.json)

-----------------------------------------------------------------------------
(* Responses *)

\* a get_csv_list call that has not started
NoTask == [pc |-> "idle", csv |-> EmptyStatus, write_data |-> <<>>]

Requests == 1..MaxRegenerations

\* the calls that are between the open of line 142 and the return of line 186
Running == {r \in Requests : tasks[r].pc \in {"open", "write"}}

NotServed == [state |-> "none", file |-> <<>>, rows |-> <<>>, writer |-> 0, closed |-> TRUE]

NoResponse ==
    [handler |-> "none", req |-> 0, source |-> <<>>, suffix |-> <<>>, index |-> <<>>,
     status |-> 0, raised |-> "", error |-> "", message |-> "", file |-> <<>>,
     csv |-> EmptyStatus, lora |-> FALSE, success |-> FALSE, last_check_time |-> JNull]

\* web.json_response({"error": text}, status=code)
ErrorResponse(r, code, text) == [r EXCEPT !.status = code, !.error = text]

\* web.FileResponse(file_path)
FileResponse(r, file_path) == [r EXCEPT !.status = 200, !.file = file_path]

\* an exception no except clause of the handler catches: the host answers 500
Unhandled(r, exception) == [r EXCEPT !.status = 500, !.raised = exception]

\* a coroutine without an await runs on the event loop without being suspended
LoopAlwaysFree == TRUE

\* get_csv_list and generate_lora_csv contain no await: a call that has
\* started holds the event loop until it returns, and no handler starts meanwhile
LoopFree == Running = {}

\* the host streams a FileResponse after the handler has returned
Pending(r) ==
    IF r.status = 200 /\ r.file # <<>>
    THEN [NotServed EXCEPT !.state = "pending", !.file = r.file]
    ELSE NotServed

-----------------------------------------------------------------------------
(* get_base_tags_file, api.py lines 189-206 *)

SourceInputs == {DANBOORU_PREFIX, E621_PREFIX, LORA_PREFIX, <<"my">>}
SuffixInputs == {TAGS_SUFFIX, COOCCURRENCE_SUFFIX, <<"cooccurrence">>}

\* the handler with the existence test of line 203 left out
get_base_tags_file_unchecked(source, suffix) ==
    LET r == [NoResponse EXCEPT !.handler = "get_base_tags_file",
                                !.source = source, !.suffix = suffix]
    IN  IF source \notin {DANBOORU_PREFIX, E621_PREFIX, LORA_PREFIX}
           \/ suffix \notin {TAGS_SUFFIX, COOCCURRENCE_SUFFIX}
        THEN ErrorResponse(r, 400, "Invalid tag source or suffix")
        ELSE FileResponse(r, CsvName(source, suffix))

get_base_tags_file(source, suffix) ==
    LET r == [NoResponse EXCEPT !.handler = "get_base_tags_file",
                                !.source = source, !.suffix = suffix]
    IN  IF source \notin {DANBOORU_PREFIX, E621_PREFIX, LORA_PREFIX}
           \/ suffix \notin {TAGS_SUFFIX, COOCCURRENCE_SUFFIX}
        THEN ErrorResponse(r, 400, "Invalid tag source or suffix")
        ELSE LET file_path == CsvName(source, suffix)
             IN  IF ~ExistsInDataDir(file_path)
                 THEN ErrorResponse(r, 404, "Base tags file not found")
                 ELSE FileResponse(r, file_path)

GetBaseTagsFile ==
    /\ LoopFree
    /\ \E source \in SourceInputs, suffix \in SuffixInputs :
          /\ resp' = get_base_tags_file(source, suffix)
          /\ served' = Pending(resp')
    /\ UNCHANGED <<data_dir, csv_meta_file, lora_search_path, lora_dirs, lora_csv,
                   tasks, clock, downloader_log>>

-----------------------------------------------------------------------------
(* get_extra_tags_file, api.py lines 209-236 *)

DigitValue ==
    ("0" :> 0) @@ ("1" :> 1) @@ ("2" :> 2) @@ ("3" :> 3) @@ ("4" :> 4) @@
    ("5" :> 5) @@ ("6" :> 6) @@ ("7" :> 7) @@ ("8" :> 8) @@ ("9" :> 9)

RECURSIVE DigitsValue(_, _)
DigitsValue(digits, acc) ==
    IF digits = <<>> THEN acc
    ELSE DigitsValue(Tail(digits), 10 * acc + DigitValue[Head(digits)])

\* int(text): an optional sign and at least one decimal digit, else ValueError
ParseInt(text) ==
    LET signed == text # <<>> /\ Head(text) \in {"-", "+"}
        digits == IF signed THEN Tail(text) ELSE text
    IN  IF digits = <<>> \/ \E i \in 1..Len(digits) : digits[i] \notin DOMAIN DigitValue
        THEN [raised |-> "ValueError", value |-> 0]
        ELSE [raised |-> "",
              value |-> IF signed /\ Head(text) = "-"
                        THEN 0 - DigitsValue(digits, 0) ELSE DigitsValue(digits, 0)]

IndexInputs ==
    {<<"a">>, <<"1", ".", "5">>, <<"-", "1">>} \cup {<<ToString(i)>> : i \in 0..MaxIndex}

get_extra_tags_file(source, suffix, index_text) ==
    LET r == [NoResponse EXCEPT !.handler = "get_extra_tags_file", !.source = source,
                                !.suffix = suffix, !.index = index_text]
        csv_file_status == get_csv_file_status
    IN  IF source \notin {DANBOORU_PREFIX, E621_PREFIX}
           \/ suffix \notin {TAGS_SUFFIX, COOCCURRENCE_SUFFIX}
        THEN ErrorResponse(r, 400, "Invalid tag source or suffix")
        ELSE LET index == ParseInt(index_text)
                 \* f"extra_{suffix}"
                 key == <<"extra", "_">> \o suffix
             IN  IF index.raised = "ValueError"
                 THEN ErrorResponse(r, 400, "Invalid index format")
                 \* "index < 0 or index >= len(...)": the lookup is not evaluated
                 \* for a negative index
                 ELSE IF index.value < 0
                 THEN ErrorResponse(r, 404, "Invalid index")
                 ELSE IF key \notin DOMAIN csv_file_status[source]
                 THEN Unhandled(r, "KeyError")
                 ELSE IF index.value >= Len(csv_file_status[source][key])
                 THEN ErrorResponse(r, 404, "Invalid index")
                 ELSE LET file_path == csv_file_status[source][key][index.value + 1]
                      IN  IF ~ExistsInDataDir(file_path)
                          THEN ErrorResponse(r, 404, "Extra tags file not found")
                          ELSE FileResponse(r, file_path)

GetExtraTagsFile ==
    /\ LoopFree
    /\ \E source \in SourceInputs, suffix \in SuffixInputs, index_text \in IndexInputs :
          /\ resp' = get_extra_tags_file(source, suffix, index_text)
          /\ served' = Pending(resp')
    /\ UNCHANGED <<data_dir, csv_meta_file, lora_search_path, lora_dirs, lora_csv,
                   tasks, clock, downloader_log>>

-----------------------------------------------------------------------------
(* get_last_check_time_from_metadata, api.py lines 74-94 *)

TIMESTAMP_KEY == "last_remote_check_timestamp"

Record(timestamp) == JObj(<<Field("name", JStr("danbooru")), Field(TIMESTAMP_KEY, timestamp)>>)

\* the states of csv_meta.json
MetaFiles ==
    { AbsentFile, UnreadableFile, NotUtf8File, InvalidJsonFile,
      JsonFile(JList(<<>>)),
      JsonFile(JNull),
      JsonFile(JObj(<<>>)),
      JsonFile(JObj(<<Field("lora_search_path", JList(<<>>))>>)),
      JsonFile(JObj(<<Field("hf_datasets", JList(<<>>))>>)),
      JsonFile(JObj(<<Field("hf_datasets", JNull)>>)),
      JsonFile(JObj(<<Field("hf_datasets", JNum(50))>>)),
      JsonFile(JObj(<<Field("hf_datasets", JStr("abc"))>>)),
      JsonFile(JObj(<<Field("hf_datasets", Record(JStr("t1")))>>)),
      JsonFile(JObj(<<Field("hf_datasets", JList(<<JNum(10)>>))>>)),
      JsonFile(JObj(<<Field("hf_datasets", JList(<<JObj(<<>>)>>))>>)),
      JsonFile(JObj(<<Field("hf_datasets", JList(<<Record(JNull)>>))>>)),
      JsonFile(JObj(<<Field("hf_datasets", JList(<<Record(JStr("t1"))>>))>>)),
      JsonFile(JObj(<<Field("hf_datasets", JList(<<Record(JStr("t2"))>>))>>)),
      JsonFile(JObj(<<Field("hf_datasets",
                          JList(<<Record(JStr("t2")), Record(JStr("t1"))>>))>>)),
      JsonFile(JObj(<<Field("hf_datasets",
                          JList(<<JObj(<<>>), Record(JStr("t1"))>>))>>)) }

\* lines 83-90: the statements of the try block after the existence test
ReadMetadata(file) ==
    LET loaded == LoadJson(file)
    IN  IF loaded.raised # "" THEN loaded
        ELSE LET metadata == loaded.value
             IN  IF metadata.type # "object" THEN Raise("AttributeError")
                 ELSE LET datasets == DictGet(metadata, "hf_datasets", JList(<<>>))
                      IN  IF ~Truthy(datasets) THEN Return(JNull)
                          ELSE IF PyLen(datasets).raised # "" THEN PyLen(datasets)
                          ELSE IF ~(PyLen(datasets).value > 0) THEN Return(JNull)
                          ELSE IF GetItem0(datasets).raised # "" THEN GetItem0(datasets)
                          ELSE IF GetItem0(datasets).value.type # "object"
                          THEN Raise("AttributeError")
                          ELSE Return(DictGet(GetItem0(datasets).value, TIMESTAMP_KEY, JNull))

get_last_check_time_from_metadata(file) ==
    IF ~file.exists THEN Return(JNull)
    ELSE IF ReadMetadata(file).raised \in {"IOError", "JSONDecodeError"} THEN Return(JNull)
    ELSE ReadMetadata(file)

-----------------------------------------------------------------------------
(* get_last_check_time, api.py lines 269-288 *)

get_last_check_time ==
    LET r == [NoResponse EXCEPT !.handler = "get_last_check_time"]
    IN  IF ~csv_meta_file.exists
        THEN [r EXCEPT !.status = 200, !.message = "csv_meta.json file not found"]
        ELSE LET last_check_time == get_last_check_time_from_metadata(csv_meta_file)
             IN  IF last_check_time.raised \in {"IOError", "JSONDecodeError"}
                 THEN [r EXCEPT !.status = 500, !.error = last_check_time.raised]
                 ELSE IF last_check_time.raised # ""
                 THEN Unhandled(r, last_check_time.raised)
                 ELSE IF last_check_time.value # JNull
                 THEN [r EXCEPT !.status = 200, !.last_check_time = last_check_time.value]
                 ELSE [r EXCEPT !.status = 200, !.message = "No datasets found in metadata"]

GetLastCheckTime ==
    /\ LoopFree
    /\ resp' = get_last_check_time
    /\ UNCHANGED <<data_dir, csv_meta_file, lora_search_path, lora_dirs, lora_csv,
                   tasks, clock, downloader_log, served>>

-----------------------------------------------------------------------------
(* force_check_csv_updates, api.py lines 239-266 *)

NoCall == [force_check |-> FALSE, raised |-> "", before |-> AbsentFile]

\* dl.Downloader().run_check_and_download(force_check): it rewrites the metadata
\* file and returns, or raises; a raise may come before or after the rewrite
DownloaderOutcomes(force_check) ==
    [raised : {"", "ConnectionError"}, meta : MetaFiles \ {AbsentFile}]
    \cup [raised : {"ConnectionError"}, meta : {csv_meta_file}]

\* the handler reading the metadata before it calls the downloader
force_check_csv_updates_read_first(before, outcome) ==
    LET r == [NoResponse EXCEPT !.handler = "force_check_csv_updates"]
        last_check_time == get_last_check_time_from_metadata(before)
    IN  IF outcome.raised # ""
        THEN [r EXCEPT !.status = 500, !.error = outcome.raised]
        ELSE IF last_check_time.raised # ""
        THEN [r EXCEPT !.status = 500, !.error = last_check_time.raised]
        ELSE [r EXCEPT !.status = 200, !.success = TRUE,
                       !.message = "Force check completed successfully",
                       !.last_check_time = last_check_time.value]

\* before: the metadata file when the handler starts; outcome: what the
\* downloader call of line 249 did
force_check_csv_updates(before, outcome) ==
    LET r == [NoResponse EXCEPT !.handler = "force_check_csv_updates"]
        last_check_time == get_last_check_time_from_metadata(outcome.meta)
    IN  IF outcome.raised # ""
        THEN [r EXCEPT !.status = 500, !.error = outcome.raised]
        ELSE IF last_check_time.raised # ""
        THEN [r EXCEPT !.status = 500, !.error = last_check_time.raised]
        ELSE [r EXCEPT !.status = 200, !.success = TRUE,
                       !.message = "Force check completed successfully",
                       !.last_check_time = last_check_time.value]

ForceCheckCsvUpdates ==
    /\ LoopFree
    /\ \E outcome \in DownloaderOutcomes(TRUE) :
          /\ csv_meta_file' = outcome.meta
          /\ downloader_log' = [force_check |-> TRUE, raised |-> outcome.raised,
                                before |-> csv_meta_file]
          /\ resp' = force_check_csv_updates(csv_meta_file, outcome)
    /\ UNCHANGED <<data_dir, lora_search_path, lora_dirs, lora_csv, tasks, clock,
                   served>>

-----------------------------------------------------------------------------
(* generate_lora_csv, api.py lines 97-147 *)

\* os.path.splitext(file)[0]
SplitExt(file) ==
    IF Len(file) >= 2 /\ file[Len(file)] \in {".json", ".png", ".safetensors"}
    THEN SubSeq(file, 1, Len(file) - 1)
    ELSE file

\* os.path.join(root, name)
PathJoin(root, name) == <<root, "/">> \o name

\* os.path.exists(lora_path)
LoraPathExists(lora_path) == lora_path \in DOMAIN lora_dirs /\ lora_dirs[lora_path].exists

\* float(v)
PyFloat(v) ==
    CASE v.type = "number" -> [raised |-> "", value |-> v.num]
      [] v.type = "str" ->
           IF v.text = "0.5" THEN [raised |-> "", value |-> 5]
           ELSE IF v.text = "0" THEN [raised |-> "", value |-> 0]
           ELSE [raised |-> "ValueError", value |-> 0]
      [] OTHER -> [raised |-> "TypeError", value |-> 0]

\* f"{x}" of a float held in tenths
FormatFloat(tenths) == <<ToString(tenths \div 10), ".", ToString(tenths % 10)>>

\* f"{v}" of a JSON value
PyStr(v) ==
    CASE v.type = "str" -> <<v.text>>
      [] v.type = "number" -> FormatFloat(v.num)
      [] OTHER -> <<"<", v.type, ">">>

\* "'activation text' not in json_data"
ActivationTextNotIn(json_data) ==
    CASE json_data.type = "object" ->
           [raised |-> "", value |-> ~HasKey(json_data, "activation text")]
      [] json_data.type = "list" ->
           [raised |-> "", value |-> JStr("activation text") \notin Range(json_data.items)]
      [] json_data.type = "str" ->
           [raised |-> "", value |-> json_data.text # "activation text"]
      [] OTHER -> [raised |-> "TypeError", value |-> TRUE]

\* lines 133-139: the row one sidecar with an activation text adds
RowOf(basename, preview_url, json_data) ==
    LET activation_text == DictGet(json_data, "activation text", JNull)
        preferred_weight == PyFloat(DictGet(json_data, "preferred weight", JNum(0)))
    IN  IF json_data.type # "object" THEN Raise("TypeError")
        ELSE IF preferred_weight.raised # "" THEN Raise(preferred_weight.raised)
        ELSE IF preferred_weight.value # 0
        THEN Return(<<basename,
                      <<"<lora:">> \o basename \o <<":">>
                          \o FormatFloat(preferred_weight.value) \o <<">">>
                          \o PyStr(activation_text),
                      preview_url>>)
        ELSE Return(<<basename, PyStr(activation_text), preview_url>>)

\* lines 116-139: the files of one directory, in listing order
RECURSIVE WalkFiles(_, _, _, _)
WalkFiles(root, files, listing, write_data) ==
    IF files = <<>> THEN [raised |-> "", value |-> write_data]
    ELSE LET file == Head(files).name
         IN  IF ~EndsWith(file, <<".json">>)
             THEN WalkFiles(root, Tail(files), listing, write_data)
             ELSE LET basename == SplitExt(file)
                      png == PathJoin(root, basename \o <<".png">>)
                      preview_url ==
                          IF \E i \in 1..Len(listing) :
                                PathJoin(root, listing[i].name) = png
                          THEN png ELSE <<>>
                      loaded == LoadJson(Head(files).content)
                  IN  IF loaded.raised # ""
                      THEN [raised |-> loaded.raised, value |-> write_data]
                      ELSE IF ActivationTextNotIn(loaded.value).raised # ""
                      THEN [raised |-> ActivationTextNotIn(loaded.value).raised,
                            value |-> write_data]
                      ELSE IF ActivationTextNotIn(loaded.value).value
                      THEN WalkFiles(root, Tail(files), listing, write_data)
                      ELSE LET row == RowOf(basename, preview_url, loaded.value)
                           IN  IF row.raised # ""
                               THEN [raised |-> row.raised, value |-> write_data]
                               ELSE WalkFiles(root, Tail(files), listing,
                                              Append(write_data, row.value))

\* lines 109-139: "for lora_path in lora_config"
RECURSIVE WalkPaths(_, _)
WalkPaths(lora_config, write_data) ==
    IF lora_config = <<>> THEN [raised |-> "", value |-> write_data]
    ELSE LET lora_path == Head(lora_config)
         IN  IF ~LoraPathExists(lora_path)
             THEN WalkPaths(Tail(lora_config), write_data)
             ELSE LET walked == WalkFiles(lora_path, lora_dirs[lora_path].files,
                                          lora_dirs[lora_path].files, write_data)
                  IN  IF walked.raised # "" THEN walked
                      ELSE WalkPaths(Tail(lora_config), walked.value)

\* line 106: "if len(lora_config) == 0: return False"
NoSearchPath(lora_config) == Len(lora_config) = 0

-----------------------------------------------------------------------------
(* get_csv_list, api.py lines 152-186 *)

\* web.json_response(response)
StatusResponse(req, csv_file_status, with_lora) ==
    [NoResponse EXCEPT !.handler = "get_csv_list", !.req = req, !.status = 200,
                       !.csv = csv_file_status, !.lora = with_lora]

\* lines 159-141: the scan, then generate_lora_csv up to the open of line 142.
\* A call that goes on to write the file is given the next request number.
StatusBegin ==
    /\ LoopFree
    /\ LET csv_file_status == get_csv_file_status
           lora_config == lora_search_path
           collected == WalkPaths(lora_config, <<>>)
       IN  IF NoSearchPath(lora_config)
           THEN /\ resp' = StatusResponse(0, csv_file_status, FALSE)
                /\ UNCHANGED <<tasks, clock>>
           ELSE IF collected.raised # ""
           THEN /\ resp' = Unhandled([NoResponse EXCEPT !.handler = "get_csv_list"],
                                     collected.raised)
                /\ UNCHANGED <<tasks, clock>>
           ELSE /\ clock < MaxRegenerations
                /\ clock' = clock + 1
                /\ tasks' = [tasks EXCEPT ![clock'] =
                                [pc |-> "open", csv |-> csv_file_status,
                                 write_data |-> collected.value]]
                /\ UNCHANGED resp
    /\ UNCHANGED <<data_dir, csv_meta_file, lora_search_path, lora_dirs, lora_csv,
                   downloader_log, served>>

\* line 142: open(filename, "w") creates or truncates lora_tags.csv
StatusOpen ==
    \E r \in Requests :
        /\ tasks[r].pc = "open"
        /\ data_dir' = IF ExistsInDataDir(LoraTagsFile) THEN data_dir
                       ELSE Append(data_dir, LoraTagsFile)
        /\ lora_csv' = [rows |-> <<>>, writer |-> r, closed |-> FALSE]
        /\ tasks' = [tasks EXCEPT ![r].pc = "write"]
        /\ UNCHANGED <<csv_meta_file, lora_search_path, lora_dirs, clock,
                       downloader_log, resp, served>>

\* lines 143-147 without the writerows of line 144
StatusWriteNothing ==
    \E r \in Requests :
        /\ tasks[r].pc = "write"
        /\ lora_csv' = [lora_csv EXCEPT !.closed = TRUE]
        /\ resp' = StatusResponse(r, tasks[r].csv, TRUE)
        /\ tasks' = [tasks EXCEPT ![r].pc = "done", ![r].csv = EmptyStatus]
        /\ UNCHANGED <<data_dir, csv_meta_file, lora_search_path, lora_dirs, clock,
                       downloader_log, served>>

\* lines 143-147 and 176-186: the rows are written, the file is closed, the
\* handler answers
StatusWrite ==
    \E r \in Requests :
        /\ tasks[r].pc = "write"
        /\ lora_csv' = [rows |-> tasks[r].write_data, writer |-> r, closed |-> TRUE]
        /\ resp' = StatusResponse(r, tasks[r].csv, TRUE)
        /\ tasks' = [tasks EXCEPT ![r].pc = "done", ![r].csv = EmptyStatus]
        /\ UNCHANGED <<data_dir, csv_meta_file, lora_search_path, lora_dirs, clock,
                       downloader_log, served>>

-----------------------------------------------------------------------------
(* The host and the environment *)

\* line 206 returns a FileResponse that names the path: the host reads the
\* file when it streams the response, after the handler returned and, the
\* file being unprotected, whatever state a regeneration has left it in
Serve ==
    /\ served.state = "pending"
    /\ served' = IF served.file = LoraTagsFile
                 THEN [state |-> "sent", file |-> served.file, rows |-> lora_csv.rows,
                       writer |-> lora_csv.writer, closed |-> lora_csv.closed]
                 ELSE [served EXCEPT !.state = "sent"]
    /\ UNCHANGED <<data_dir, csv_meta_file, lora_search_path, lora_dirs, lora_csv,
                   tasks, clock, downloader_log, resp>>

LoraRoots == {"loras", "more_loras"}

JsonEntry(base, content) == [name |-> <<base, ".json">>, content |-> content]
PngEntry(base) == [name |-> <<base, ".png">>, content |-> NotUtf8File]

Sidecar(fields) == JsonFile(JObj(fields))

\* a LoRA with its sidecar, and with a preview image or without
Model(base, content, png) ==
    IF png THEN <<JsonEntry(base, content), PngEntry(base)>>
    ELSE <<JsonEntry(base, content)>>

\* the models a user installs while the server runs
Installable ==
    { Model("foo", Sidecar(<<Field("activation text", JStr("foo tag")),
                            Field("preferred weight", JNum(8))>>), TRUE),
      Model("bar", Sidecar(<<Field("activation text", JStr("bar tag"))>>), FALSE),
      Model("bad", InvalidJsonFile, FALSE) }

\* a model appears under a search path between two requests
InstallLora ==
    /\ \E root \in LoraRoots, model \in Installable :
          /\ lora_dirs[root].exists
          /\ Cardinality({i \in 1..Len(lora_dirs[root].files) :
                 EndsWith(lora_dirs[root].files[i].name, <<".json">>)}) < MaxInstalled
          /\ \A i \in 1..Len(lora_dirs[root].files) :
                lora_dirs[root].files[i].name # model[1].name
          /\ lora_dirs' = [lora_dirs EXCEPT ![root].files = @ \o model]
    /\ UNCHANGED <<data_dir, csv_meta_file, lora_search_path, lora_csv,
                   tasks, clock, downloader_log, resp, served>>

-----------------------------------------------------------------------------
(* Initial states and specifications *)

\* a lora_tags.csv left by an earlier run of the server
OldLoraCsv ==
    [rows |-> << << <<"old">>, <<"old tag">>, <<>> >> >>, writer |-> 0, closed |-> TRUE]
NoLoraCsv == [rows |-> <<>>, writer |-> 0, closed |-> TRUE]

MissingDir == [exists |-> FALSE, files |-> <<>>]
Dir(files) == [exists |-> TRUE, files |-> files]

InitRequests ==
    /\ tasks = [r \in Requests |-> NoTask]
    /\ clock = 0
    /\ downloader_log = NoCall
    /\ resp = NoResponse
    /\ served = NotServed

InitLoraCsv ==
    lora_csv = IF ExistsInDataDir(LoraTagsFile) THEN OldLoraCsv ELSE NoLoraCsv

DanbooruFiles == {f \in FileNames : StartsWith(f, DANBOORU_PREFIX)}

\* the data directory holds any of the danbooru files beside two fixed files,
\* or any of the other files beside two fixed danbooru files, in either order
DataDirs ==
    {Listing(S \cup {CsvName(E621_PREFIX, TAGS_SUFFIX), LoraTagsFile}, order) :
        S \in SUBSET DanbooruFiles, order \in {"forward", "reverse"}}
    \cup
    {Listing(S \cup {CsvName(DANBOORU_PREFIX, TAGS_SUFFIX),
                     <<"danbooru", "_", "tags", "_", "extra1", ".csv">>}, order) :
        S \in SUBSET (FileNames \ DanbooruFiles), order \in {"forward", "reverse"}}

InitFiles ==
    /\ data_dir \in DataDirs
    /\ csv_meta_file = AbsentFile
    /\ lora_search_path = <<>>
    /\ lora_dirs = [root \in LoraRoots |-> MissingDir]
    /\ InitLoraCsv
    /\ InitRequests

\* with no search path configured get_csv_list returns within StatusBegin
NextFiles ==
    \/ GetBaseTagsFile
    \/ GetExtraTagsFile
    \/ StatusBegin

SpecFiles == InitFiles /\ [][NextFiles]_vars

\* csv_meta.json is in any of its states
InitMeta ==
    /\ data_dir = Listing({CsvName(DANBOORU_PREFIX, TAGS_SUFFIX)}, "forward")
    /\ csv_meta_file \in MetaFiles
    /\ lora_search_path = <<>>
    /\ lora_dirs = [root \in LoraRoots |-> MissingDir]
    /\ InitLoraCsv
    /\ InitRequests

NextMeta ==
    \/ GetLastCheckTime
    \/ ForceCheckCsvUpdates

SpecMeta == InitMeta /\ [][NextMeta]_vars

\* the sidecar files a LoRA directory may hold
SidecarContents ==
    { InvalidJsonFile,
      JsonFile(JList(<<>>)),
      Sidecar(<<Field("description", JStr("no activation"))>>),
      Sidecar(<<Field("activation text", JStr("a tag"))>>),
      Sidecar(<<Field("activation text", JStr("a tag")), Field("preferred weight", JNum(0))>>),
      Sidecar(<<Field("activation text", JStr("a tag")), Field("preferred weight", JNum(8))>>),
      Sidecar(<<Field("activation text", JStr("a tag")), Field("preferred weight", JNum(10))>>),
      Sidecar(<<Field("activation text", JStr("a tag")), Field("preferred weight", JStr("0.5"))>>),
      Sidecar(<<Field("activation text", JStr("a tag")), Field("preferred weight", JStr("high"))>>) }

Models(base) == {Model(base, content, png) : content \in SidecarContents, png \in BOOLEAN}

\* the listings of the first search path: up to two models and a weights file
FirstDirs ==
    {MissingDir, Dir(<<>>), Dir(<<[name |-> <<"foo", ".safetensors">>,
                                  content |-> NotUtf8File]>>)}
    \cup {Dir(m) : m \in Models("foo")}
    \cup {Dir(m1 \o m2) : m1 \in Models("foo"), m2 \in Models("bar")}
    \cup {Dir(m2 \o m1) : m1 \in Models("foo"), m2 \in Models("bar")}

SecondDirs ==
    {MissingDir, Dir(<<>>),
     Dir(Model("foo", Sidecar(<<Field("activation text", JStr("other tag")),
                                Field("preferred weight", JNum(15))>>), TRUE))}

\* the search path and the LoRA directories are in any of their states
InitSynth ==
    /\ data_dir \in {Listing({CsvName(DANBOORU_PREFIX, TAGS_SUFFIX)}, "forward"),
                     Listing({CsvName(DANBOORU_PREFIX, TAGS_SUFFIX), LoraTagsFile},
                             "forward")}
    /\ csv_meta_file = AbsentFile
    /\ lora_search_path \in {<<>>, <<"loras">>, <<"more_loras">>,
                             <<"loras", "more_loras">>, <<"nowhere">>}
    /\ lora_dirs \in [LoraRoots -> FirstDirs \cup SecondDirs]
    /\ lora_dirs["loras"] \in FirstDirs
    /\ lora_dirs["more_loras"] \in SecondDirs
    /\ InitLoraCsv
    /\ InitRequests

NextSynth ==
    \/ StatusBegin
    \/ StatusOpen
    \/ StatusWrite

SpecSynth == InitSynth /\ [][NextSynth]_vars

\* the server starts with an empty LoRA directory; models are installed,
\* status requests and fetches of lora_tags.csv arrive, the host streams
Init ==
    /\ data_dir \in {Listing({CsvName(DANBOORU_PREFIX, TAGS_SUFFIX)}, "forward"),
                     Listing({CsvName(DANBOORU_PREFIX, TAGS_SUFFIX), LoraTagsFile},
                             "forward")}
    /\ csv_meta_file = AbsentFile
    /\ lora_search_path \in {<<>>, <<"loras">>}
    /\ lora_dirs = [root \in LoraRoots |-> IF root = "loras" THEN Dir(<<>>) ELSE MissingDir]
    /\ InitLoraCsv
    /\ InitRequests

Next ==
    \/ StatusBegin
    \/ StatusOpen
    \/ StatusWrite
    \/ GetBaseTagsFile
    \/ Serve
    \/ InstallLora

Spec == Init /\ [][Next]_vars

-----------------------------------------------------------------------------
(* Fetch extra file by index *)

\* the scanner's extra-file list of a source and a role
ScannerExtraList(source, suffix) ==
    get_csv_file_status[source][IF suffix = TAGS_SUFFIX THEN EXTRA_TAGS
                                ELSE EXTRA_COOCCURRENCE]

\* C1: for a source in {danbooru, e621} and a suffix in {tags,
\* tags_cooccurrence}, the answer to "extra/{index}" is 400 when the index is
\* not an integer, the file at position index of the scanner's extra-file list
\* of that source and suffix when 0 <= index < length, and 404 otherwise; this
\* for both suffixes.
C1_ExtraFileByIndex ==
    (/\ resp.handler = "get_extra_tags_file"
     /\ resp.source \in {DANBOORU_PREFIX, E621_PREFIX}
     /\ resp.suffix \in {TAGS_SUFFIX, COOCCURRENCE_SUFFIX})
    => LET index == ParseInt(resp.index)
           list == ScannerExtraList(resp.source, resp.suffix)
       IN  IF index.raised # "" THEN resp.status = 400
           ELSE IF 0 <= index.value /\ index.value < Len(list)
           THEN resp.status = 200 /\ resp.file = list[index.value + 1]
           ELSE resp.status = 404

\* the same statement for the suffix "tags" alone (it holds:
\* the failure of C1 lies in the tags_cooccurrence lookup only)
ExtraFileByIndexTagsOnly ==
    resp.suffix = TAGS_SUFFIX => C1_ExtraFileByIndex

-----------------------------------------------------------------------------
(* Fetch base file *)

BaseFileContract(r) ==
    IF r.source \in {DANBOORU_PREFIX, E621_PREFIX, LORA_PREFIX}
       /\ r.suffix \in {TAGS_SUFFIX, COOCCURRENCE_SUFFIX}
    THEN /\ r.status \in {200, 404}
         /\ r.status = 404 <=> CsvName(r.source, r.suffix) \notin Range(data_dir)
         /\ r.status = 200 => r.file = CsvName(r.source, r.suffix)
    ELSE r.status = 400

\* C2: a base-file request for a valid source and suffix is answered 404 if
\* and only if {source}_{suffix}.csv is absent from the data directory when the
\* request is handled, and otherwise 200 with exactly that file; a request
\* with any other source or suffix is answered 400.
C2_BaseFile ==
    [][(resp' # resp /\ resp'.handler = "get_base_tags_file") => BaseFileContract(resp')]_vars

C2_Witness ==
    /\ resp.handler = "get_base_tags_file"
    /\ resp.source = LORA_PREFIX
    /\ resp.suffix = COOCCURRENCE_SUFFIX
    /\ resp.status = 200
    /\ resp.file = <<"lora", "_", "tags", "_", "cooccurrence", ".csv">>
    /\ CsvName(LORA_PREFIX, TAGS_SUFFIX) \notin Range(data_dir)

-----------------------------------------------------------------------------
(* Status listing scanner *)

IsExtraCandidate(f, source) ==
    /\ StartsWith(f, source)
    /\ EndsWith(f, <<".csv">>)
    /\ f \notin {CsvName(source, TAGS_SUFFIX), CsvName(source, COOCCURRENCE_SUFFIX)}

NoRepeats(list) == \A i, j \in 1..Len(list) : list[i] = list[j] => i = j

\* C6: in a status document, for each source in {danbooru, e621}, base_tags
\* and base_cooccurrence tell whether the two base files exist, and every other
\* file named {source}*.csv is in extra_cooccurrence if its lower-cased name
\* contains "tags_cooccurrence", else in extra_tags if it contains "tags", else
\* in neither list; nothing else is in the lists and no file is listed twice.
C6_ScannerClassification ==
    (resp.handler = "get_csv_list" /\ resp.status = 200) =>
    \A source \in {DANBOORU_PREFIX, E621_PREFIX} :
        LET entry == resp.csv[source]
            extra_tags == Range(entry[EXTRA_TAGS])
            extra_cooccurrence == Range(entry[EXTRA_COOCCURRENCE])
        IN  /\ entry[BASE_TAGS] = (CsvName(source, TAGS_SUFFIX) \in Range(data_dir))
            /\ entry[BASE_COOCCURRENCE] =
                   (CsvName(source, COOCCURRENCE_SUFFIX) \in Range(data_dir))
            /\ NoRepeats(entry[EXTRA_TAGS]) /\ NoRepeats(entry[EXTRA_COOCCURRENCE])
            /\ extra_tags \cap extra_cooccurrence = {}
            /\ \A f \in extra_tags \cup extra_cooccurrence :
                   f \in Range(data_dir) /\ IsExtraCandidate(f, source)
            /\ \A f \in Range(data_dir) :
                   IsExtraCandidate(f, source) =>
                       IF Contains(COOCCURRENCE_SUFFIX, Lower(f))
                       THEN f \in extra_cooccurrence /\ f \notin extra_tags
                       ELSE IF Contains(TAGS_SUFFIX, Lower(f))
                       THEN f \in extra_tags /\ f \notin extra_cooccurrence
                       ELSE f \notin extra_tags /\ f \notin extra_cooccurrence

C6_Witness ==
    /\ resp.handler = "get_csv_list"
    /\ resp.status = 200
    /\ resp.csv[DANBOORU_PREFIX][BASE_TAGS] = FALSE
    /\ resp.csv[DANBOORU_PREFIX][BASE_COOCCURRENCE] = TRUE
    /\ resp.csv[DANBOORU_PREFIX][EXTRA_COOCCURRENCE] =
           << <<"danbooru", "_", "tags", "_", "cooccurrence", "_", "backup", ".csv">> >>
    /\ resp.csv[DANBOORU_PREFIX][EXTRA_TAGS] =
           << <<"danbooru", "_", "TAGS", "_", "x", ".csv">>,
              <<"danbooru", "_", "tags", "_", "extra1", ".csv">> >>
    /\ <<"danbooru", "_", "notes", ".csv">> \in Range(data_dir)

-----------------------------------------------------------------------------
(* The metadata file and the responses built on it *)

\* the file can be opened, decoded and parsed as JSON
Parses(file) == file.exists /\ file.readable /\ file.utf8 /\ file.valid_json

\* the JSON document has the shape the downloader writes: an object whose
\* "hf_datasets", if present, is a list of objects
WellFormed(file) ==
    /\ Parses(file)
    /\ file.json.type = "object"
    /\ HasKey(file.json, "hf_datasets") =>
           LET datasets == DictGet(file.json, "hf_datasets", JNull)
           IN  /\ datasets.type = "list"
               /\ \A i \in 1..Len(datasets.items) : datasets.items[i].type = "object"

\* the last_remote_check_timestamp of the first dataset record the file
\* holds, JNull when it holds none
RecordedTimestamp(file) ==
    IF /\ Parses(file)
       /\ file.json.type = "object"
       /\ HasKey(file.json, "hf_datasets")
       /\ DictGet(file.json, "hf_datasets", JNull).type = "list"
       /\ DictGet(file.json, "hf_datasets", JNull).items # <<>>
       /\ DictGet(file.json, "hf_datasets", JNull).items[1].type = "object"
       /\ HasKey(DictGet(file.json, "hf_datasets", JNull).items[1], TIMESTAMP_KEY)
    THEN DictGet(DictGet(file.json, "hf_datasets", JNull).items[1], TIMESTAMP_KEY, JNull)
    ELSE JNull

\* C3: last-check-time answers 200 with a null time and a "file not found"
\* message when the metadata file is absent; 200 with the recorded timestamp,
\* or with a null time and a "no datasets" message when none is recorded, when
\* the file is present and well-formed; and 500 with an error field, never
\* 200, when the file exists but cannot be read or parsed.
C3_LastCheckTimeOutcomes ==
    resp.handler = "get_last_check_time" =>
        /\ ~csv_meta_file.exists =>
               /\ resp.status = 200
               /\ resp.last_check_time = JNull
               /\ resp.message = "csv_meta.json file not found"
        /\ WellFormed(csv_meta_file) =>
               /\ resp.status = 200
               /\ resp.last_check_time = RecordedTimestamp(csv_meta_file)
               /\ RecordedTimestamp(csv_meta_file) = JNull =>
                      resp.message = "No datasets found in metadata"
        /\ (csv_meta_file.exists /\ ~Parses(csv_meta_file)) =>
               /\ resp.status = 500
               /\ resp.error # ""

\* the first two outcomes of C3 alone (it holds: the failure
\* of C3 lies in the unreadable-file outcome only)
LastCheckTimeAbsentOrWellFormed ==
    (~csv_meta_file.exists \/ WellFormed(csv_meta_file)) => C3_LastCheckTimeOutcomes

\* C4: get_last_check_time_from_metadata never raises: whatever the state of
\* the metadata file, it returns the first dataset record's
\* last_remote_check_timestamp or None.
C4_ReaderNeverRaises ==
    resp.handler \in {"get_last_check_time", "force_check_csv_updates"} =>
        LET result == get_last_check_time_from_metadata(csv_meta_file)
        IN  /\ result.raised = ""
            /\ result.value \in {RecordedTimestamp(csv_meta_file), JNull}

\* the same statement for the files that are absent, unreadable, not JSON or
\* well-formed (it holds: the failure of C4 lies in the shapes
\* the reader does not expect)
ReaderOnExpectedFiles ==
    ((~Parses(csv_meta_file) /\ csv_meta_file.utf8) \/ WellFormed(csv_meta_file))
    => C4_ReaderNeverRaises

\* C9: force-check calls run_check_and_download(force_check = True) and reads
\* the metadata file after the call returned; when neither raised, the answer
\* is 200 with success = true and the timestamp the file holds after the
\* downloader's update; when either raised, the answer is 500 with
\* success = false and the error text.
C9_ForceCheckReadsAfterUpdate ==
    resp.handler = "force_check_csv_updates" =>
        LET read == get_last_check_time_from_metadata(csv_meta_file)
            error == IF downloader_log.raised # "" THEN downloader_log.raised
                     ELSE read.raised
        IN  /\ downloader_log.force_check = TRUE
            /\ error = "" =>
                   /\ resp.status = 200
                   /\ resp.success = TRUE
                   /\ resp.last_check_time = RecordedTimestamp(csv_meta_file)
            /\ error # "" =>
                   /\ resp.status = 500
                   /\ resp.success = FALSE
                   /\ resp.error = error

C9_Witness ==
    /\ resp.handler = "force_check_csv_updates"
    /\ resp.status = 200
    /\ resp.success = TRUE
    /\ RecordedTimestamp(downloader_log.before) = JStr("t1")
    /\ RecordedTimestamp(csv_meta_file) = JStr("t2")
    /\ resp.last_check_time = JStr("t2")

-----------------------------------------------------------------------------
(* The LoRA synthesizer *)

\* the .json files under the configured roots that exist, as <<root, position>>
SidecarsFound ==
    UNION {{<<root, i>> : i \in {j \in 1..Len(lora_dirs[root].files) :
                                    EndsWith(lora_dirs[root].files[j].name, <<".json">>)}} :
           root \in {p \in Range(lora_search_path) : LoraPathExists(p)}}

SidecarJson(sc) == lora_dirs[sc[1]].files[sc[2]].content

\* the sidecar is a JSON object
IsSidecarObject(sc) == Parses(SidecarJson(sc)) /\ SidecarJson(sc).json.type = "object"

HasActivationText(sc) ==
    IsSidecarObject(sc) /\ HasKey(SidecarJson(sc).json, "activation text")

\* the preferred weight of a sidecar, in tenths; 0 when the field is absent
WeightOf(sc) ==
    LET weight == DictGet(SidecarJson(sc).json, "preferred weight", JNum(0))
    IN  IF weight.type = "number" THEN weight.num
        ELSE IF weight = JStr("0.5") THEN 5
        ELSE 0

\* the preferred weight is absent or is a number
HasNumericWeight(sc) ==
    LET weight == DictGet(SidecarJson(sc).json, "preferred weight", JNum(0))
    IN  weight.type = "number" \/ weight = JStr("0.5")

\* the row the sidecar is to contribute
ClaimedRow(sc) ==
    LET file == lora_dirs[sc[1]].files[sc[2]].name
        name == SubSeq(file, 1, Len(file) - 1)
        png == name \o <<".png">>
        preview == IF \E i \in 1..Len(lora_dirs[sc[1]].files) :
                          lora_dirs[sc[1]].files[i].name = png
                   THEN <<sc[1], "/">> \o png ELSE <<>>
        text == DictGet(SidecarJson(sc).json, "activation text", JNull).text
    IN  <<name,
          IF WeightOf(sc) # 0
          THEN <<"<lora:">> \o name
                   \o <<":", ToString(WeightOf(sc) \div 10), ".", ToString(WeightOf(sc) % 10), ">">>
                   \o <<text>>
          ELSE <<text>>,
          preview>>

\* a status request has just been answered or has just failed
StatusJustHandled == resp.handler = "get_csv_list" /\ Running = {}

\* C5: generate_lora_csv returns false and leaves lora_tags.csv untouched when
\* no search path is configured; in every other case it returns true and the
\* file holds exactly the rows collected in that call, which is no row when
\* every root is missing, no .json file is found or no sidecar has an
\* activation text.
C5_SynthesizerResult ==
    StatusJustHandled =>
        IF lora_search_path = <<>>
        THEN /\ resp.status = 200
             /\ ~resp.lora
             /\ lora_csv \in {OldLoraCsv, NoLoraCsv}
        ELSE /\ resp.status = 200
             /\ resp.lora
             /\ LoraTagsFile \in Range(data_dir)
             /\ lora_csv = [rows |-> tasks[resp.req].write_data, writer |-> resp.req,
                            closed |-> TRUE]
             /\ (\A sc \in SidecarsFound : ~HasActivationText(sc)) => lora_csv.rows = <<>>

\* every sidecar found is a JSON object whose preferred weight, if any, is a number
AllSidecarsRegular ==
    \A sc \in SidecarsFound :
        IsSidecarObject(sc) /\ (HasActivationText(sc) => HasNumericWeight(sc))

\* C5 where every sidecar is regular (it holds: the failure of
\* C5 lies in the sidecars that json.load or float reject)
SynthesizerResultRegular == AllSidecarsRegular => C5_SynthesizerResult

\* C7: of the .json sidecars found under the configured roots, one lacking
\* "activation text" contributes no row and does not stop the others; one with
\* a non-zero preferred weight contributes one row whose text is
\* <lora:{name}:{weight}> followed by its activation text; one with a zero or
\* absent weight contributes one row with its activation text unchanged; name
\* is the file name without extension and preview the sibling {name}.png when
\* that file exists, else empty.
C7_RowContent ==
    (StatusJustHandled /\ lora_search_path # <<>>) =>
        /\ lora_csv.writer = clock
        /\ lora_csv.writer > 0
        /\ NoRepeats(lora_csv.rows)
        /\ \A sc \in SidecarsFound :
               (HasActivationText(sc) /\ HasNumericWeight(sc)) =>
                   ClaimedRow(sc) \in Range(lora_csv.rows)
        /\ \A row \in Range(lora_csv.rows) :
               \E sc \in SidecarsFound : HasActivationText(sc) /\ row = ClaimedRow(sc)

\* C7 where every sidecar is regular (it holds: the failure of
\* C7 lies in the sidecars that json.load or float reject)
RowContentRegular == AllSidecarsRegular => C7_RowContent

-----------------------------------------------------------------------------
(* The LoRA entry of the status document and the file behind it *)

Max(S) == CHOOSE x \in S : \A y \in S : y <= x

-----------------------------------------------------------------------------
(* Concurrent requests on lora_tags.csv *)

Writers == {r \in Requests : tasks[r].pc = "done"}

\* once no regeneration is in progress the file holds the output of the
\* request that wrote last
LastWriterWins ==
    (Running = {} /\ Writers # {}) =>
        lora_csv = [rows |-> tasks[Max(Writers)].write_data, writer |-> Max(Writers),
                    closed |-> TRUE]

\* what the host streamed for a fetch of lora/tags is the file as an earlier
\* run left it, the complete output of one request, or a truncated file
ServedSomeState ==
    (served.state = "sent" /\ served.file = LoraTagsFile) =>
        \/ served.writer = 0 /\ served.rows = OldLoraCsv.rows
        \/ /\ served.writer \in Requests
           /\ served.closed
           /\ served.rows = tasks[served.writer].write_data
        \/ /\ served.writer \in Requests
           /\ ~served.closed
           /\ served.rows = <<>>

\* C10 as stated: while one status request regenerates lora_tags.csv a second
\* one can start its own regeneration, and once both have finished the file
\* holds the output of the one that wrote last.
C10_RegenerationsInterleave ==
    /\ (Running # {} /\ clock < MaxRegenerations) => ENABLED StatusBegin
    /\ LastWriterWins

\* C10 as amended: the regenerations of two status requests never interleave,
\* the second starts after the first has closed the file, and the file then
\* holds the output of the later request; a fetch of lora/tags is streamed the
\* file as it is when the host reads it: a previous version, a complete
\* regeneration or a truncated file.
C10_RegenerationsSerialised ==
    /\ Cardinality(Running) <= 1
    /\ \A r \in Requests : tasks[r].pc \in {"open", "write"} => r = clock
    /\ LastWriterWins
    /\ ServedSomeState

C10_Witness ==
    /\ Running = {}
    /\ Writers = {1, 2}
    /\ tasks[1].write_data # tasks[2].write_data
    /\ lora_csv.rows = tasks[2].write_data
    /\ served.state = "sent"
    /\ served.file = LoraTagsFile
    /\ served.writer = 2
    /\ ~served.closed

====
